---- MODULE Spec2Model ----
(***************************************************************************)
(* RGCT_COUNTER: the frequency analyser (utils/processor.ts, analyzeData)  *)
(* and the Dashboard's edit history (history, historyIndex and the         *)
(* delete / undo / redo / reset handlers).                                 *)
(*                                                                         *)
(* Strings are sequences of one-character strings.  A percentage is a      *)
(* JavaScript double in the source; here it is the same quotient rounded   *)
(* to the nearest millionth of a percent (100% = 100000000).               *)
(***************************************************************************)
EXTENDS Integers, Sequences, FiniteSets, TLC

\* ------------------------------------------------------------------ bounds
\* Largest number of rows of an uploaded sheet.
MaxRows == 3
\* Largest length of the snapshot array (only deletes of names that are not in
\* the current snapshot can grow it without end).
MaxHistory == 4
\* Largest number of objects (items and arrays) the Dashboard allocates where
\* the objects are told apart.
MaxObjects == 10
\* Largest number of handler invocations between two renders of the Dashboard.
MaxBatch == 2
\* Largest number of rows of a sheet where the App's workbook is explored.
MaxSheetRows == 1
\* Largest number of rows of a sheet where the grid's pages are explored.
MaxGridRows == 101

\* ------------------------------------------------------- cells and strings
\* A raw cell value: a string, a number, null or undefined.  A character of a
\* string is written as itself, or as its code point ("U+00E9") when it is not
\* in ASCII.
StringCell(s) == [t |-> "string", n |-> 0, s |-> s]
NumberCell(n) == [t |-> "number", n |-> n, s |-> << >>]
NullCell      == [t |-> "null", n |-> 0, s |-> << >>]
UndefinedCell == [t |-> "undefined", n |-> 0, s |-> << >>]

\* The cell values a row of the model may hold in the analysed column.
CellValues ==
  { NullCell, UndefinedCell, NumberCell(5),
    StringCell(<< >>), StringCell(<<"5">>), StringCell(<<" ">>),
    StringCell(<<" ", "A", "b", " ">>), StringCell(<<"a", "b">>),
    StringCell(<<"A", "B">>), StringCell(<<"b">>),
    StringCell(<<"U+00E9">>), StringCell(<<"e", "U+0301">>) }

\* The one column the model analyses.
Columns == {"c"}

\* A row is a mapping from some of the columns to cell values: a row with an
\* empty domain lacks the column.
Rows == {<< >>} \cup {[c |-> v] : v \in CellValues}

\* An element of the data array that is not an object: null or undefined.  It
\* has none of the columns (the name nonObject is not a column).
NullRow      == [nonObject |-> "null"]
UndefinedRow == [nonObject |-> "undefined"]

RECURSIVE SeqsUpTo(_, _)
SeqsUpTo(S, n) ==
  IF n = 0 THEN {<< >>}
  ELSE LET shorter == SeqsUpTo(S, n - 1)
       IN  shorter \cup {Append(q, x) : q \in {r \in shorter : Len(r) = n - 1}, x \in S}

\* The sheets the analyser is run on.
Datasets == SeqsUpTo(Rows, MaxRows)

\* The sheets the Dashboard's history is explored on: one cell per kind of row
\* (no column, an empty value, and values of three keys, one key in two
\* spellings).
DashboardRows ==
  {<< >>} \cup {[c |-> v] : v \in {StringCell(<<" ">>), StringCell(<<" ", "A", "b", " ">>),
                                   StringCell(<<"a", "b">>), StringCell(<<"b">>),
                                   NumberCell(5)}}

DashboardDatasets == SeqsUpTo(DashboardRows, MaxRows)

Digits == <<"0", "1", "2", "3", "4", "5", "6", "7", "8", "9">>

\* String(n) of a non-negative integer.
RECURSIVE NumberToString(_)
NumberToString(n) ==
  IF n < 10 THEN <<Digits[n + 1]>>
  ELSE NumberToString(n \div 10) \o <<Digits[(n % 10) + 1]>>

\* String(val)
String(val) ==
  CASE val.t = "string" -> val.s
    [] val.t = "number" -> NumberToString(val.n)
    [] val.t = "null" -> <<"n", "u", "l", "l">>
    [] OTHER -> <<"u", "n", "d", "e", "f", "i", "n", "e", "d">>

IsWhitespace(ch) == ch = " "

\* String.prototype.trim
RECURSIVE trimStart(_)
trimStart(s) ==
  IF s # << >> /\ IsWhitespace(Head(s)) THEN trimStart(Tail(s)) ELSE s

RECURSIVE trimEnd(_)
trimEnd(s) ==
  IF s # << >> /\ IsWhitespace(s[Len(s)])
  THEN trimEnd(SubSeq(s, 1, Len(s) - 1)) ELSE s

trim(s) == trimEnd(trimStart(s))

\* String.prototype.toLowerCase, on the model's alphabet
lowerChar(ch) ==
  CASE ch = "A" -> "a"
    [] ch = "B" -> "b"
    [] OTHER -> ch

toLowerCase(s) == [i \in 1..Len(s) |-> lowerChar(s[i])]

\* normalizeKey without trim
normalizeKeyNoTrim(val) ==
  IF val.t = "null" \/ val.t = "undefined" THEN << >>
  ELSE toLowerCase(String(val))

\* normalizeKey without toLowerCase
normalizeKeyNoLower(val) ==
  IF val.t = "null" \/ val.t = "undefined" THEN << >>
  ELSE trim(String(val))

\* normalizeKey
normalizeKey(val) ==
  IF val.t = "null" \/ val.t = "undefined" THEN << >>
  ELSE toLowerCase(trim(String(val)))

\* ---------------------------------------------------------------- analyser
\* (count / total) * 100, rounded to a millionth of a percent
percentageOf(count, total) ==
  IF total > 0 THEN (count * 100000000 + total \div 2) \div total ELSE 0

\* String.prototype.localeCompare on the model's alphabet: first by letters
\* regardless of case (space, then digits, then letters), then lower case before
\* upper case at the first place where the case differs.
primaryWeight(ch) ==
  CASE ch = " " -> 0
    [] ch \in {"a", "A"} -> 20
    [] ch \in {"b", "B"} -> 21
    [] ch \in {"d", "e", "f", "i", "l", "n", "u"} -> 30
    [] OTHER -> 1 + CHOOSE d \in 0..9 : Digits[d + 1] = ch

caseWeight(ch) == IF ch \in {"A", "B"} THEN 1 ELSE 0

\* -1, 0 or 1: the first place where the letters differ, a prefix first
RECURSIVE comparePrimary(_, _)
comparePrimary(x, y) ==
  IF x = << >> THEN (IF y = << >> THEN 0 ELSE -1)
  ELSE IF y = << >> THEN 1
  ELSE IF primaryWeight(Head(x)) < primaryWeight(Head(y)) THEN -1
  ELSE IF primaryWeight(Head(x)) > primaryWeight(Head(y)) THEN 1
  ELSE comparePrimary(Tail(x), Tail(y))

\* the same for the case, used on strings with the same letters
RECURSIVE compareCase(_, _)
compareCase(x, y) ==
  IF x = << >> THEN (IF y = << >> THEN 0 ELSE -1)
  ELSE IF y = << >> THEN 1
  ELSE IF caseWeight(Head(x)) < caseWeight(Head(y)) THEN -1
  ELSE IF caseWeight(Head(x)) > caseWeight(Head(y)) THEN 1
  ELSE compareCase(Tail(x), Tail(y))

\* Canonical decomposition: the precomposed letter U+00E9 is the letter e
\* followed by the combining acute accent U+0301.
RECURSIVE normalizeNFD(_)
normalizeNFD(s) ==
  IF s = << >> THEN << >>
  ELSE (IF Head(s) = "U+00E9" THEN <<"e", "U+0301">> ELSE <<Head(s)>>)
       \o normalizeNFD(Tail(s))

IsMark(ch) == ch = "U+0301"

RECURSIVE stripMarks(_)
stripMarks(s) ==
  IF s = << >> THEN << >>
  ELSE IF IsMark(Head(s)) THEN stripMarks(Tail(s))
  ELSE <<Head(s)>> \o stripMarks(Tail(s))

accentWeight(ch) == IF IsMark(ch) THEN 1 ELSE 0

\* the same for the accents, used on strings with the same letters
RECURSIVE compareAccent(_, _)
compareAccent(x, y) ==
  IF x = << >> THEN (IF y = << >> THEN 0 ELSE -1)
  ELSE IF y = << >> THEN 1
  ELSE IF accentWeight(Head(x)) < accentWeight(Head(y)) THEN -1
  ELSE IF accentWeight(Head(x)) > accentWeight(Head(y)) THEN 1
  ELSE compareAccent(Tail(x), Tail(y))

\* The strings are compared in their canonical decomposition, so canonically
\* equivalent strings compare equal (0), as ECMA-262 requires of localeCompare.
localeCompare(x, y) ==
  LET dx == normalizeNFD(x)
      dy == normalizeNFD(y)
      p == comparePrimary(stripMarks(dx), stripMarks(dy))
      a == compareAccent(dx, dy)
  IN  IF p # 0 THEN p ELSE IF a # 0 THEN a ELSE compareCase(dx, dy)

\* The comparator of sortedData.sort: count high to low, then the name.
compareItems(a, b) ==
  IF b.count # a.count THEN b.count - a.count
  ELSE localeCompare(a.originalName, b.originalName)

\* Array.prototype.sort (stable) with compareItems
RECURSIVE insertSorted(_, _)
insertSorted(x, s) ==
  IF s = << >> THEN <<x>>
  ELSE IF compareItems(Head(s), x) <= 0 THEN <<Head(s)>> \o insertSorted(x, Tail(s))
  ELSE <<x>> \o s

RECURSIVE sortItems(_)
sortItems(s) ==
  IF s = << >> THEN << >>
  ELSE insertSorted(s[Len(s)], sortItems(SubSeq(s, 1, Len(s) - 1)))

hasOwnProperty(row, column) == column \in DOMAIN row

\* Object.prototype.hasOwnProperty.call(row, column) converts row to an object
\* first: for null and undefined that is a TypeError.
hasOwnPropertyThrows(row) == row \in {NullRow, UndefinedRow}

\* frequencyMap.has that finds a key only in the entry set last
mapIndexLastOnly(map, key) == {i \in {Len(map)} : i >= 1 /\ map[i].key = key}

\* frequencyMap: an insertion-ordered sequence of [key, count, display]
mapIndex(map, key) == {i \in 1..Len(map) : map[i].key = key}

\* forEachRow with totalRows++ before the test for an empty key
forEachRowCountsEmpty(acc, row, column) ==
  IF ~hasOwnProperty(row, column) THEN acc
  ELSE LET rawValue == row[column]
           key == normalizeKey(rawValue)
       IN  IF key = << >> THEN [acc EXCEPT !.totalRows = @ + 1]
           ELSE IF mapIndex(acc.map, key) # {}
           THEN LET i == CHOOSE j \in mapIndex(acc.map, key) : TRUE
                IN  [map |-> [acc.map EXCEPT ![i].count = @ + 1],
                     totalRows |-> acc.totalRows + 1]
           ELSE [map |-> Append(acc.map, [key |-> key, count |-> 1,
                                          display |-> trim(String(rawValue))]),
                 totalRows |-> acc.totalRows + 1]

\* forEachRow that stores the display of every occurrence, so the last one wins
forEachRowLastDisplay(acc, row, column) ==
  IF ~hasOwnProperty(row, column) THEN acc
  ELSE LET rawValue == row[column]
           key == normalizeKey(rawValue)
       IN  IF key = << >> THEN acc
           ELSE IF mapIndex(acc.map, key) # {}
           THEN LET i == CHOOSE j \in mapIndex(acc.map, key) : TRUE
                IN  [map |-> [acc.map EXCEPT ![i].count = @ + 1,
                                             ![i].display = trim(String(rawValue))],
                     totalRows |-> acc.totalRows + 1]
           ELSE [map |-> Append(acc.map, [key |-> key, count |-> 1,
                                          display |-> trim(String(rawValue))]),
                 totalRows |-> acc.totalRows + 1]

\* One pass of data.forEach over a row; acc is [map, totalRows].
forEachRow(acc, row, column) ==
  IF ~hasOwnProperty(row, column) THEN acc
  ELSE LET rawValue == row[column]
           key == normalizeKey(rawValue)
       IN  IF key = << >> THEN acc
           ELSE IF mapIndex(acc.map, key) # {}
           THEN LET i == CHOOSE j \in mapIndex(acc.map, key) : TRUE
                IN  [map |-> [acc.map EXCEPT ![i].count = @ + 1],
                     totalRows |-> acc.totalRows + 1]
           ELSE [map |-> Append(acc.map, [key |-> key, count |-> 1,
                                          display |-> trim(String(rawValue))]),
                 totalRows |-> acc.totalRows + 1]

RECURSIVE forEach(_, _, _)
forEach(data, column, k) ==
  IF k = 0 THEN [map |-> << >>, totalRows |-> 0]
  ELSE forEachRow(forEach(data, column, k - 1), data[k], column)

\* analyzeData does not return: the forEach callback throws on some row and
\* nothing catches it.
analyzeDataThrows(data, column) ==
  \E k \in 1..Len(data) : hasOwnPropertyThrows(data[k])

\* The result of analyzeData when it returns.
analyzeData(data, column) ==
  LET acc == forEach(data, column, Len(data))
      totalRows == acc.totalRows
      unsorted == [i \in 1..Len(acc.map) |->
                     [name |-> acc.map[i].key,
                      originalName |-> acc.map[i].display,
                      count |-> acc.map[i].count,
                      percentage |-> percentageOf(acc.map[i].count, totalRows)]]
      sortedData == sortItems(unsorted)
  IN  [totalRows |-> totalRows,
       uniqueCategories |-> Len(sortedData),
       data |-> sortedData]

\* ---------------------------------------------------------------- state
VARIABLES
  fullDataset,     \* window.fullDataset: the rows of the active sheet
  selectedColumn,  \* App: the analysed column, "" when none is selected
  results,         \* App: the analysis result; << >> is null, <<r>> is r
  history,         \* Dashboard: the snapshots, each a sequence of items
  historyIndex,    \* Dashboard: the cursor, counted from 0 as in the source
  lastOp,          \* the handler that ran last and what it met (observation only)
  searchTerm,      \* DataTable: the text of the filter box
  sortConfig,      \* DataTable: [key, direction] of the table sort
  exported,        \* the rows last handed to exportToCSV; << >> before any export
  heapItems,       \* the FrequencyItem objects: heapItems[id] is the content of object id
  heapArrays,      \* the FrequencyItem[] objects: heapArrays[id] is the item ids it holds
  historyRef,      \* Dashboard: the array ids of the snapshots of history
  closure,         \* [history, historyIndex] as the handlers of the last render see them
  sequential,      \* [history, historyIndex] had each invocation been applied on its own
  pending,         \* the number of handler invocations since the last render
  reply,           \* ChatInterface: the parsed reply handled last; << >> before any
  toolResult,      \* ChatInterface: the toolResult of the last model message; << >> is null
  generatedChart,  \* App: the chart configuration from the chat; << >> is null
  activeResults,   \* stack-based Dashboard: the result shown; << >> while not mounted
  stackHistory,    \* stack-based Dashboard: its history, the results to undo to
  step,            \* App: "UPLOAD" or "WORKSPACE"
  allSheets,       \* window.allSheets: the rows of every sheet, by sheet name
  activeSheetName, \* App: the name of the active sheet, "" when no file is loaded
  viewMode,        \* App: "RAW", "ANALYSIS" or "CHARTS"
  currentPage,     \* RawDataTable: the page shown, counted from 1
  rowsPerPage,     \* RawDataTable: the number of rows of a page
  chartItems,      \* DistributionChart: the data prop
  chartSections    \* DistributionChart: the memoised chartData

\* The state of the DataTable and what it exported.
tableVars == <<searchTerm, sortConfig, exported>>

\* The objects behind the values of history; empty where the objects are not
\* told apart.
heapVars == <<heapItems, heapArrays, historyRef>>

\* What tells the state the handlers were rendered with from the state they
\* have set; at rest where every invocation is followed by a render.
batchVars == <<closure, sequential, pending>>

\* The chat and what it handed to the App.
chatVars == <<reply, toolResult, generatedChart>>

\* The stack-based Dashboard.
stackVars == <<activeResults, stackHistory>>

\* The App's step, workbook and view.
appVars == <<step, allSheets, activeSheetName, viewMode>>

\* The RawDataTable; while it is not mounted, the values it will mount with.
pageVars == <<currentPage, rowsPerPage>>

\* useState(50)
DefaultRowsPerPage == 50

\* The DistributionChart on its own.
distributionVars == <<chartItems, chartSections>>

\* The state that the Dashboard's handlers do not touch.
otherVars == <<chatVars, stackVars, appVars, pageVars, distributionVars>>

\* That state once a workbook of one sheet is loaded and the Analysis tab is
\* open.
InitOther ==
  /\ reply = << >>
  /\ toolResult = << >>
  /\ generatedChart = << >>
  /\ activeResults = << >>
  /\ stackHistory = << >>
  /\ step = "WORKSPACE"
  /\ allSheets = [name \in {"Sheet1"} |-> fullDataset]
  /\ activeSheetName = "Sheet1"
  /\ viewMode = "ANALYSIS"
  /\ currentPage = 1
  /\ rowsPerPage = DefaultRowsPerPage
  /\ chartItems = << >>
  /\ chartSections = << >>

vars == <<fullDataset, selectedColumn, results, history, historyIndex, lastOp,
          tableVars, heapVars, batchVars, otherVars>>

\* The Dashboard is rendered only in the analysis view and for a selected
\* column.
DashboardMounted == viewMode = "ANALYSIS" /\ selectedColumn # ""

\* items.reduce((sum, item) => sum + item.count, 0)
RECURSIVE Sum(_)
Sum(items) == IF items = << >> THEN 0 ELSE Head(items).count + Sum(Tail(items))

\* items.filter(item => item.originalName !== originalName)
RECURSIVE filterOut(_, _)
filterOut(items, originalName) ==
  IF items = << >> THEN << >>
  ELSE IF Head(items).originalName # originalName
       THEN <<Head(items)>> \o filterOut(Tail(items), originalName)
       ELSE filterOut(Tail(items), originalName)

\* const currentData = history[historyIndex]
currentData == history[historyIndex + 1]

currentStats ==
  [totalRows |-> Sum(currentData),
   uniqueCategories |-> Len(currentData),
   data |-> currentData]

\* What useState / useEffect put into the history for a results prop.
initialHistory(res) == <<res.data>>

\* handleDeleteRow without history.slice: the new snapshot is pushed after the
\* whole history
handleDeleteRowNoSlice(hist, idx, originalName) ==
  LET filteredData == filterOut(hist[idx + 1], originalName)
      newTotal == Sum(filteredData)
      newData == [i \in 1..Len(filteredData) |->
                    [filteredData[i] EXCEPT
                       !.percentage = percentageOf(filteredData[i].count, newTotal)]]
      newHistory == Append(hist, newData)
  IN  [history |-> newHistory, historyIndex |-> Len(newHistory) - 1]

\* handleDeleteRow that keeps the old percentages
handleDeleteRowStalePercentage(hist, idx, originalName) ==
  LET filteredData == filterOut(hist[idx + 1], originalName)
      newHistory == Append(SubSeq(hist, 1, idx + 1), filteredData)
  IN  [history |-> newHistory, historyIndex |-> Len(newHistory) - 1]

\* handleDeleteRow that divides by the total before the delete
handleDeleteRowOldTotal(hist, idx, originalName) ==
  LET filteredData == filterOut(hist[idx + 1], originalName)
      oldTotal == Sum(hist[idx + 1])
      newData == [i \in 1..Len(filteredData) |->
                    [filteredData[i] EXCEPT
                       !.percentage = percentageOf(filteredData[i].count, oldTotal)]]
      newHistory == Append(SubSeq(hist, 1, idx + 1), newData)
  IN  [history |-> newHistory, historyIndex |-> Len(newHistory) - 1]

\* handleDeleteRow that puts the remaining items in the opposite order
handleDeleteRowReversed(hist, idx, originalName) ==
  LET filteredData == filterOut(hist[idx + 1], originalName)
      newTotal == Sum(filteredData)
      newData == [i \in 1..Len(filteredData) |->
                    [filteredData[Len(filteredData) + 1 - i] EXCEPT
                       !.percentage =
                          percentageOf(filteredData[Len(filteredData) + 1 - i].count, newTotal)]]
      newHistory == Append(SubSeq(hist, 1, idx + 1), newData)
  IN  [history |-> newHistory, historyIndex |-> Len(newHistory) - 1]

\* handleDeleteRow that filters the origin instead of the current snapshot
handleDeleteRowFromOrigin(hist, idx, originalName) ==
  LET filteredData == filterOut(hist[1], originalName)
      newTotal == Sum(filteredData)
      newData == [i \in 1..Len(filteredData) |->
                    [filteredData[i] EXCEPT
                       !.percentage = percentageOf(filteredData[i].count, newTotal)]]
      newHistory == Append(SubSeq(hist, 1, idx + 1), newData)
  IN  [history |-> newHistory, historyIndex |-> Len(newHistory) - 1]

\* handleDeleteRow that returns early when the name is not in the snapshot
handleDeleteRowSkipAbsent(hist, idx, originalName) ==
  LET filteredData == filterOut(hist[idx + 1], originalName)
      newTotal == Sum(filteredData)
      newData == [i \in 1..Len(filteredData) |->
                    [filteredData[i] EXCEPT
                       !.percentage = percentageOf(filteredData[i].count, newTotal)]]
      newHistory == Append(SubSeq(hist, 1, idx + 1), newData)
  IN  IF Len(filteredData) = Len(hist[idx + 1])
      THEN [history |-> hist, historyIndex |-> idx]
      ELSE [history |-> newHistory, historyIndex |-> Len(newHistory) - 1]

\* handleDeleteRow: the new [history, historyIndex] for the given ones.
handleDeleteRow(hist, idx, originalName) ==
  LET filteredData == filterOut(hist[idx + 1], originalName)
      newTotal == Sum(filteredData)
      newData == [i \in 1..Len(filteredData) |->
                    [filteredData[i] EXCEPT
                       !.percentage = percentageOf(filteredData[i].count, newTotal)]]
      newHistory == Append(SubSeq(hist, 1, idx + 1), newData)
  IN  [history |-> newHistory, historyIndex |-> Len(newHistory) - 1]

\* handleUndo without its guard
handleUndoNoGuard(hist, idx) == idx - 1

\* handleUndo that goes back to the origin
handleUndoToOrigin(hist, idx) == 0

\* handleUndo: the new historyIndex.
handleUndo(hist, idx) == IF idx > 0 THEN idx - 1 ELSE idx

\* handleRedo without its guard
handleRedoNoGuard(hist, idx) == idx + 1

\* handleRedo that jumps to the last snapshot
handleRedoToLast(hist, idx) == Len(hist) - 1

\* handleRedo: the new historyIndex.
handleRedo(hist, idx) == IF idx < Len(hist) - 1 THEN idx + 1 ELSE idx

\* handleResetData that only moves the cursor to the origin
handleResetDataKeepsHistory(hist, idx) == [history |-> hist, historyIndex |-> 0]

\* handleResetData that keeps the current snapshot as the new origin
handleResetDataToCurrent(hist, idx) == [history |-> <<hist[idx + 1]>>, historyIndex |-> 0]

\* handleResetData after the user confirmed: the new [history, historyIndex].
handleResetData(hist, idx) ==
  LET originalData == hist[1]
  IN  [history |-> <<originalData>>, historyIndex |-> 0]

\* ------------------------------------------- the stack-based Dashboard
\* handleDeleteRow: the new [activeResults, history].
stackDeleteRow(active, stack, itemName) ==
  LET newData == filterOut(active.data, itemName)
      newTotalRows == Sum(newData)
      recalculatedData == [i \in 1..Len(newData) |->
                             [newData[i] EXCEPT
                                !.percentage = percentageOf(newData[i].count, newTotalRows)]]
  IN  [activeResults |-> [totalRows |-> newTotalRows,
                          uniqueCategories |-> Len(recalculatedData),
                          data |-> recalculatedData],
       history |-> Append(stack, active)]

\* handleUndo that restores the oldest entry of the stack
stackUndoToOldest(active, stack) ==
  IF Len(stack) = 0 THEN [activeResults |-> active, history |-> stack]
  ELSE [activeResults |-> stack[1], history |-> SubSeq(stack, 1, Len(stack) - 1)]

\* handleUndo: the new [activeResults, history].
stackUndo(active, stack) ==
  IF Len(stack) = 0 THEN [activeResults |-> active, history |-> stack]
  ELSE LET previousState == stack[Len(stack)]
       IN  [activeResults |-> previousState,
            history |-> SubSeq(stack, 1, Len(stack) - 1)]

\* handleResetData: the new [activeResults, history].
stackResetData(active, stack, initialResults) ==
  IF Len(stack) = 0 THEN [activeResults |-> active, history |-> stack]
  ELSE [activeResults |-> initialResults, history |-> << >>]

\* ---------------------------------------------------------------- DataTable
\* useState({ key: 'count', direction: 'desc' })
defaultSortConfig == [key |-> "count", direction |-> "desc"]

\* String.prototype.includes
includes(s, sub) ==
  \E i \in 0..(Len(s) - Len(sub)) : SubSeq(s, i + 1, i + Len(sub)) = sub

\* data.filter(item => item.originalName.toLowerCase().includes(searchTerm.toLowerCase()))
RECURSIVE filterData(_, _)
filterData(data, term) ==
  IF data = << >> THEN << >>
  ELSE IF includes(toLowerCase(Head(data).originalName), toLowerCase(term))
       THEN <<Head(data)>> \o filterData(Tail(data), term)
       ELSE filterData(Tail(data), term)

\* The comparator of the table sort.
compareRows(a, b, config) ==
  IF config.key = "originalName"
  THEN (IF config.direction = "asc"
        THEN localeCompare(a.originalName, b.originalName)
        ELSE localeCompare(b.originalName, a.originalName))
  ELSE (IF config.direction = "asc" THEN a.count - b.count ELSE b.count - a.count)

\* [...filteredData].sort (stable) with compareRows
RECURSIVE insertRow(_, _, _)
insertRow(x, s, config) ==
  IF s = << >> THEN <<x>>
  ELSE IF compareRows(Head(s), x, config) <= 0
       THEN <<Head(s)>> \o insertRow(x, Tail(s), config)
  ELSE <<x>> \o s

RECURSIVE sortRows(_, _)
sortRows(s, config) ==
  IF s = << >> THEN << >>
  ELSE insertRow(s[Len(s)], sortRows(SubSeq(s, 1, Len(s) - 1), config), config)

\* const sortedData: the rows of the table, for the data prop, the filter text
\* and the sort
sortedData(data, term, config) == sortRows(filterData(data, term), config)

\* handleSort: the setSortConfig updater
handleSort(current, key) ==
  [key |-> key,
   direction |-> IF current.key = key /\ current.direction = "desc" THEN "asc" ELSE "desc"]

\* --------------------------------------------------------------- actions
\* What lastOp records of a step: the handler, its flag (delete: the name was
\* in the current snapshot; reset: the user confirmed), and the cursor and the
\* length of the history the handler started from.
Op(op, flag, fromIndex, fromLen) ==
  [op |-> op, flag |-> flag, fromIndex |-> fromIndex, fromLen |-> fromLen]

\* After handleDataLoaded: a sheet is loaded, no column is selected.
InitWith(sheets) ==
  /\ fullDataset \in sheets
  /\ selectedColumn = ""
  /\ results = << >>
  /\ history = << >>
  /\ historyIndex = 0
  /\ lastOp = Op("load", FALSE, 0, 0)
  /\ searchTerm = << >>
  /\ sortConfig = defaultSortConfig
  /\ exported = << >>
  /\ heapItems = << >>
  /\ heapArrays = << >>
  /\ historyRef = << >>
  /\ closure = [history |-> << >>, historyIndex |-> 0]
  /\ sequential = [history |-> << >>, historyIndex |-> 0]
  /\ pending = 0
  /\ InitOther

\* App.handleColumnAnalyze from the ColumnSelector, and the mount of the
\* Dashboard with the new results.  When analyzeData throws, the handler ends
\* before any of its setState calls (lastOp.flag records it).  The
\* ColumnSelector is rendered in the analysis view only, which
\* setViewMode('ANALYSIS') leaves as it is.
ColumnAnalyze ==
  /\ viewMode = "ANALYSIS"
  /\ selectedColumn = ""
  /\ \E column \in Columns :
       IF analyzeDataThrows(fullDataset, column)
       THEN /\ lastOp' = Op("analyze", TRUE, 0, 0)
            /\ UNCHANGED <<selectedColumn, results, history, historyIndex>>
       ELSE LET analysis == analyzeData(fullDataset, column)
            IN  /\ selectedColumn' = column
                /\ results' = <<analysis>>
                /\ history' = initialHistory(analysis)
                /\ historyIndex' = 0
                /\ lastOp' = Op("analyze", FALSE, 0, 0)
  /\ UNCHANGED <<fullDataset, tableVars, heapVars, batchVars, otherVars>>

\* "Analyze another column": the Dashboard's onReset, which unmounts it and
\* its DataTable (their state is gone; the next mount starts from useState's
\* initial values).
AnalyzeAnother ==
  /\ DashboardMounted
  /\ selectedColumn' = ""
  /\ results' = << >>
  /\ history' = << >>
  /\ historyIndex' = 0
  /\ lastOp' = Op("back", FALSE, 0, 0)
  /\ searchTerm' = << >>
  /\ sortConfig' = defaultSortConfig
  /\ UNCHANGED <<fullDataset, exported, heapVars, batchVars, otherVars>>

NamesOf(items) == {items[i].originalName : i \in 1..Len(items)}

\* The names a delete may be asked for: those of the analysed items, whether
\* or not they are still in the current snapshot (the DataTable passes the name
\* of a displayed item; the handler takes any string).
DeleteNames == NamesOf(results[1].data)

DeleteRow ==
  /\ DashboardMounted
  /\ \E originalName \in DeleteNames :
       LET next == handleDeleteRow(history, historyIndex, originalName)
       IN  /\ Len(next.history) <= MaxHistory
           /\ history' = next.history
           /\ historyIndex' = next.historyIndex
           /\ lastOp' = Op("delete", originalName \in NamesOf(currentData),
                           historyIndex, Len(history))
  /\ UNCHANGED <<fullDataset, selectedColumn, results, tableVars, heapVars, batchVars, otherVars>>

Undo ==
  /\ DashboardMounted
  /\ historyIndex' = handleUndo(history, historyIndex)
  /\ lastOp' = Op("undo", FALSE, historyIndex, Len(history))
  /\ UNCHANGED <<fullDataset, selectedColumn, results, history, tableVars, heapVars, batchVars, otherVars>>

Redo ==
  /\ DashboardMounted
  /\ historyIndex' = handleRedo(history, historyIndex)
  /\ lastOp' = Op("redo", FALSE, historyIndex, Len(history))
  /\ UNCHANGED <<fullDataset, selectedColumn, results, history, tableVars, heapVars, batchVars, otherVars>>

\* handleResetData: window.confirm may be answered either way.
ResetData ==
  /\ DashboardMounted
  /\ \E confirmed \in BOOLEAN :
       LET next == IF confirmed THEN handleResetData(history, historyIndex)
                   ELSE [history |-> history, historyIndex |-> historyIndex]
       IN  /\ history' = next.history
           /\ historyIndex' = next.historyIndex
           /\ lastOp' = Op("reset", confirmed, historyIndex, Len(history))
  /\ UNCHANGED <<fullDataset, selectedColumn, results, tableVars, heapVars, batchVars, otherVars>>

Next ==
  \/ ColumnAnalyze
  \/ AnalyzeAnother
  \/ DeleteRow
  \/ Undo
  \/ Redo
  \/ ResetData

Init == InitWith(DashboardDatasets)

Spec == Init /\ [][Next]_vars

\* ------------------------------------------------------ DistributionChart
\* Largest number of items of the list handed to the DistributionChart.
MaxChartItems == 12

\* The count columns of analysis results of n items: counts from 1 to 3 that
\* do not increase.
RECURSIVE CountLists(_)
CountLists(n) ==
  IF n = 0 THEN {<< >>}
  ELSE UNION {{Append(q, c) : c \in {d \in 1..3 : n = 1 \/ d <= q[n - 1]}} :
                q \in CountLists(n - 1)}

\* The item list of a count column: the i-th item is named after i.
ItemsOfCounts(counts) ==
  LET counted == [i \in 1..Len(counts) |->
                    [name |-> NumberToString(i), originalName |-> NumberToString(i),
                     count |-> counts[i], percentage |-> 0]]
  IN  [i \in 1..Len(counts) |->
         [counted[i] EXCEPT !.percentage = percentageOf(counts[i], Sum(counted))]]

ChartLists == UNION {{ItemsOfCounts(q) : q \in CountLists(n)} : n \in 0..MaxChartItems}

\* 'Other Categories'
OtherCategories ==
  <<"O", "t", "h", "e", "r", " ", "C", "a", "t", "e", "g", "o", "r", "i", "e", "s">>

\* chartData whose others start after the eleventh item
chartDataSkipsEleventh(data) ==
  IF Len(data) <= 11 THEN data
  ELSE LET top10 == SubSeq(data, 1, 10)
           others == SubSeq(data, 12, Len(data))
           otherCount == Sum(others)
           totalCount == Sum(data)
           otherItem == [name |-> <<"o", "t", "h", "e", "r">>,
                         originalName |-> OtherCategories,
                         count |-> otherCount,
                         percentage |-> percentageOf(otherCount, totalCount)]
       IN  Append(top10, otherItem)

\* const chartData = useMemo(() => ..., [data])
chartData(data) ==
  IF Len(data) <= 11 THEN data
  ELSE LET top10 == SubSeq(data, 1, 10)
           others == SubSeq(data, 11, Len(data))
           otherCount == Sum(others)
           totalCount == Sum(data)
           otherItem == [name |-> <<"o", "t", "h", "e", "r">>,
                         originalName |-> OtherCategories,
                         count |-> otherCount,
                         percentage |-> percentageOf(otherCount, totalCount)]
       IN  Append(top10, otherItem)

\* The DistributionChart renders with a data prop.
RenderChart ==
  /\ \E data \in ChartLists :
       /\ chartItems' = data
       /\ chartSections' = chartData(data)
  /\ lastOp' = Op("distribution", FALSE, 0, 0)
  /\ UNCHANGED <<fullDataset, selectedColumn, results, history, historyIndex, tableVars,
                 heapVars, batchVars, chatVars, stackVars, appVars, pageVars>>

InitChart == InitWith({<< >>})

NextChart == RenderChart

\* The DistributionChart on every item list of the bounds.
SpecChart == InitChart /\ [][NextChart]_vars

\* ---- The two Dashboards side by side: the same results prop, the same clicks.
\* Both are mounted by the column analysis.
MountBoth ==
  /\ viewMode = "ANALYSIS"
  /\ selectedColumn = ""
  /\ \E column \in Columns :
       /\ ~analyzeDataThrows(fullDataset, column)
       /\ LET analysis == analyzeData(fullDataset, column)
          IN  /\ selectedColumn' = column
              /\ results' = <<analysis>>
              /\ history' = initialHistory(analysis)
              /\ historyIndex' = 0
              /\ activeResults' = <<analysis>>
              /\ stackHistory' = << >>
              /\ lastOp' = Op("analyze", FALSE, 0, 0)
  /\ UNCHANGED <<fullDataset, tableVars, heapVars, batchVars, chatVars, appVars, pageVars,
                 distributionVars>>

DeleteRowBoth ==
  /\ DashboardMounted
  /\ \E originalName \in DeleteNames :
       LET next == handleDeleteRow(history, historyIndex, originalName)
           nextStack == stackDeleteRow(activeResults[1], stackHistory, originalName)
       IN  /\ Len(next.history) <= MaxHistory
           /\ history' = next.history
           /\ historyIndex' = next.historyIndex
           /\ activeResults' = <<nextStack.activeResults>>
           /\ stackHistory' = nextStack.history
           /\ lastOp' = Op("delete", originalName \in NamesOf(currentData),
                           historyIndex, Len(history))
  /\ UNCHANGED <<fullDataset, selectedColumn, results, tableVars, heapVars, batchVars, chatVars, appVars, pageVars,
                 distributionVars>>

UndoBoth ==
  /\ DashboardMounted
  /\ LET nextStack == stackUndo(activeResults[1], stackHistory)
     IN  /\ historyIndex' = handleUndo(history, historyIndex)
         /\ activeResults' = <<nextStack.activeResults>>
         /\ stackHistory' = nextStack.history
  /\ lastOp' = Op("undo", FALSE, historyIndex, Len(history))
  /\ UNCHANGED <<fullDataset, selectedColumn, results, history, tableVars, heapVars, batchVars, chatVars, appVars, pageVars,
                 distributionVars>>

\* Reset in both; the index-based Dashboard asks, and the user confirms.
ResetDataBoth ==
  /\ DashboardMounted
  /\ LET next == handleResetData(history, historyIndex)
         nextStack == stackResetData(activeResults[1], stackHistory, results[1])
     IN  /\ history' = next.history
         /\ historyIndex' = next.historyIndex
         /\ activeResults' = <<nextStack.activeResults>>
         /\ stackHistory' = nextStack.history
  /\ lastOp' = Op("reset", TRUE, historyIndex, Len(history))
  /\ UNCHANGED <<fullDataset, selectedColumn, results, tableVars, heapVars, batchVars, chatVars, appVars, pageVars,
                 distributionVars>>

NextStack ==
  \/ MountBoth
  \/ DeleteRowBoth
  \/ UndoBoth
  \/ ResetDataBoth

SpecStack == Init /\ [][NextStack]_vars

\* The analyser alone, on every sheet of the bounds.
InitAnalyze == InitWith(Datasets)

NextAnalyze ==
  \/ ColumnAnalyze
  \/ AnalyzeAnother

SpecAnalyze == InitAnalyze /\ [][NextAnalyze]_vars

\* ------------------------------------------------- updates of the sheet
\* The rows handleUpdateData may be given (newData: any[]): objects, and
\* elements that are not objects.
UpdateRows ==
  {[c |-> StringCell(<<"a", "b">>)], [c |-> StringCell(<<"b">>)], NullRow}

UpdateDatasets == SeqsUpTo(UpdateRows, MaxRows - 1) \cup {<<UndefinedRow>>}

\* The sheets a file is parsed into: their rows are objects.
ParsedDatasets == {d \in UpdateDatasets : ~analyzeDataThrows(d, "c")}

\* window.allSheets[activeSheetName] = newData
syncBack(sheets, name, newData) ==
  [n \in DOMAIN sheets \cup {name} |-> IF n = name THEN newData ELSE sheets[n]]

\* handleUpdateData with a Dashboard that has no useEffect([results]): the new
\* results are shown with the history of the old ones
handleUpdateDataKeepsHistory(newData) ==
  /\ fullDataset' = newData
  /\ allSheets' = syncBack(allSheets, activeSheetName, newData)
  /\ IF ~(selectedColumn # "" /\ viewMode = "ANALYSIS")
     THEN /\ lastOp' = Op("update", FALSE, historyIndex, Len(history))
          /\ UNCHANGED <<results, history, historyIndex>>
     ELSE IF analyzeDataThrows(newData, selectedColumn)
     THEN /\ lastOp' = Op("update", TRUE, historyIndex, Len(history))
          /\ UNCHANGED <<results, history, historyIndex>>
     ELSE LET analysis == analyzeData(newData, selectedColumn)
          IN  /\ results' = <<analysis>>
              /\ lastOp' = Op("update", FALSE, historyIndex, Len(history))
              /\ UNCHANGED <<history, historyIndex>>
  /\ UNCHANGED <<selectedColumn, tableVars, heapVars, batchVars, chatVars, stackVars,
                 step, activeSheetName, viewMode, pageVars,
                 distributionVars>>

\* App.handleUpdateData: the active sheet is replaced, in window.fullDataset
\* and in window.allSheets.  In the analysis view with a selected column the
\* column is analysed again; the Dashboard then renders with the new results
\* prop and its useEffect([results]) sets the history anew.  When analyzeData
\* throws, the sheet is already replaced and setResults is not reached.
handleUpdateData(newData) ==
  /\ fullDataset' = newData
  /\ allSheets' = syncBack(allSheets, activeSheetName, newData)
  /\ IF ~(selectedColumn # "" /\ viewMode = "ANALYSIS")
     THEN /\ lastOp' = Op("update", FALSE, historyIndex, Len(history))
          /\ UNCHANGED <<results, history, historyIndex>>
     ELSE IF analyzeDataThrows(newData, selectedColumn)
     THEN /\ lastOp' = Op("update", TRUE, historyIndex, Len(history))
          /\ UNCHANGED <<results, history, historyIndex>>
     ELSE LET analysis == analyzeData(newData, selectedColumn)
          IN  /\ results' = <<analysis>>
              /\ history' = initialHistory(analysis)
              /\ historyIndex' = 0
              /\ lastOp' = Op("update", FALSE, historyIndex, Len(history))
  /\ UNCHANGED <<selectedColumn, tableVars, heapVars, batchVars, chatVars, stackVars,
                 step, activeSheetName, viewMode, pageVars,
                 distributionVars>>

\* The chat hands the App a new version of the active sheet.
UpdateData ==
  /\ step = "WORKSPACE"
  /\ \E newData \in UpdateDatasets : handleUpdateData(newData)

InitUpdate == InitWith(ParsedDatasets)

NextUpdate ==
  \/ ColumnAnalyze
  \/ AnalyzeAnother
  \/ UpdateData
  \/ DeleteRow
  \/ Undo
  \/ Redo
  \/ ResetData

\* The Dashboard with a sheet that the chat replaces.
SpecUpdate == InitUpdate /\ [][NextUpdate]_vars

\* ---------------------------------------------------------------- the App
SheetNames == {"Sheet1", "Sheet2"}

ViewModes == {"RAW", "ANALYSIS", "CHARTS"}

\* The sheets of the App's workbooks: rows of two values.
AppDatasets ==
  SeqsUpTo({[c |-> StringCell(<<"a", "b">>)], [c |-> StringCell(<<"b">>)]}, MaxSheetRows)

\* What FileUpload hands to handleDataLoaded: the rows of each sheet of the
\* file, by sheet name (no sheet at all included).
Workbooks == UNION {[names -> AppDatasets] : names \in SUBSET SheetNames}

\* What handleUpdateData may be given: a sheet, or rows that are not objects.
AppUpdateDatasets == AppDatasets \cup {<<NullRow>>}

\* The App after its first render and useEffect: no file is loaded.
InitApp ==
  /\ step = "UPLOAD"
  /\ fullDataset = << >>
  /\ allSheets = << >>
  /\ activeSheetName = ""
  /\ viewMode = "RAW"
  /\ selectedColumn = ""
  /\ results = << >>
  /\ history = << >>
  /\ historyIndex = 0
  /\ lastOp = Op("start", FALSE, 0, 0)
  /\ searchTerm = << >>
  /\ sortConfig = defaultSortConfig
  /\ exported = << >>
  /\ heapItems = << >>
  /\ heapArrays = << >>
  /\ historyRef = << >>
  /\ closure = [history |-> << >>, historyIndex |-> 0]
  /\ sequential = [history |-> << >>, historyIndex |-> 0]
  /\ pending = 0
  /\ reply = << >>
  /\ toolResult = << >>
  /\ generatedChart = << >>
  /\ activeResults = << >>
  /\ stackHistory = << >>
  /\ currentPage = 1
  /\ rowsPerPage = DefaultRowsPerPage
  /\ chartItems = << >>
  /\ chartSections = << >>

\* handleDataLoaded.  A file without sheets is ignored (lastOp.flag);
\* otherwise the first sheet, whichever the file lists first, becomes the
\* active one.
handleDataLoaded(sheetsData) ==
  /\ IF DOMAIN sheetsData = {}
     THEN /\ lastOp' = Op("load", TRUE, 0, 0)
          /\ UNCHANGED <<fullDataset, appVars,
                 distributionVars>>
     ELSE \E firstSheet \in DOMAIN sheetsData :
            /\ allSheets' = sheetsData
            /\ fullDataset' = sheetsData[firstSheet]
            /\ activeSheetName' = firstSheet
            /\ step' = "WORKSPACE"
            /\ lastOp' = Op("load", FALSE, 0, 0)
            /\ UNCHANGED viewMode
  /\ UNCHANGED <<selectedColumn, results, history, historyIndex, tableVars, heapVars,
                 batchVars, chatVars, stackVars, pageVars,
                 distributionVars>>

\* The FileUpload of the UPLOAD step has parsed a file.
DataLoaded ==
  /\ step = "UPLOAD"
  /\ \E sheetsData \in Workbooks : handleDataLoaded(sheetsData)

\* handleSwitchSheet that leaves window.fullDataset as it is
SwitchSheetKeepsDataset ==
  /\ step = "WORKSPACE"
  /\ \E newSheetName \in SheetNames :
       IF newSheetName \notin DOMAIN allSheets
       THEN /\ lastOp' = Op("switch", TRUE, 0, 0)
            /\ UNCHANGED <<fullDataset, activeSheetName, selectedColumn, results,
                           generatedChart, viewMode, history, historyIndex,
                           searchTerm, sortConfig>>
       ELSE /\ activeSheetName' = newSheetName
            /\ selectedColumn' = ""
            /\ results' = << >>
            /\ generatedChart' = << >>
            /\ viewMode' = "RAW"
            /\ history' = << >>
            /\ historyIndex' = 0
            /\ searchTerm' = << >>
            /\ sortConfig' = defaultSortConfig
            /\ lastOp' = Op("switch", FALSE, 0, 0)
            /\ UNCHANGED fullDataset
  /\ UNCHANGED <<step, allSheets, exported, heapVars, batchVars, reply, toolResult,
                 stackVars, pageVars,
                 distributionVars>>

\* handleSwitchSheet that keeps the selected column
SwitchSheetKeepsColumn ==
  /\ step = "WORKSPACE"
  /\ \E newSheetName \in SheetNames :
       IF newSheetName \notin DOMAIN allSheets
       THEN /\ lastOp' = Op("switch", TRUE, 0, 0)
            /\ UNCHANGED <<fullDataset, activeSheetName, selectedColumn, results,
                           generatedChart, viewMode, history, historyIndex,
                           searchTerm, sortConfig>>
       ELSE /\ fullDataset' = allSheets[newSheetName]
            /\ activeSheetName' = newSheetName
            /\ results' = << >>
            /\ generatedChart' = << >>
            /\ viewMode' = "RAW"
            /\ history' = << >>
            /\ historyIndex' = 0
            /\ searchTerm' = << >>
            /\ sortConfig' = defaultSortConfig
            /\ lastOp' = Op("switch", FALSE, 0, 0)
            /\ UNCHANGED selectedColumn
  /\ UNCHANGED <<step, allSheets, exported, heapVars, batchVars, reply, toolResult,
                 stackVars, pageVars,
                 distributionVars>>

\* handleSwitchSheet.  A name that is not a sheet of the file is ignored
\* (lastOp.flag).  A Dashboard that was shown is unmounted: its state and its
\* DataTable's are gone.
SwitchSheet ==
  /\ step = "WORKSPACE"
  /\ \E newSheetName \in SheetNames :
       IF newSheetName \notin DOMAIN allSheets
       THEN /\ lastOp' = Op("switch", TRUE, 0, 0)
            /\ UNCHANGED <<fullDataset, activeSheetName, selectedColumn, results,
                           generatedChart, viewMode, history, historyIndex,
                           searchTerm, sortConfig>>
       ELSE /\ fullDataset' = allSheets[newSheetName]
            /\ activeSheetName' = newSheetName
            /\ selectedColumn' = ""
            /\ results' = << >>
            /\ generatedChart' = << >>
            /\ viewMode' = "RAW"
            /\ history' = << >>
            /\ historyIndex' = 0
            /\ searchTerm' = << >>
            /\ sortConfig' = defaultSortConfig
            /\ lastOp' = Op("switch", FALSE, 0, 0)
  /\ UNCHANGED <<step, allSheets, exported, heapVars, batchVars, reply, toolResult,
                 stackVars, pageVars,
                 distributionVars>>

\* The Grid, Analysis and Charts buttons, and the ColumnSelector's onBack:
\* setViewMode(mode).  Leaving the analysis view unmounts the Dashboard;
\* coming back to it with a selected column mounts a new one on the results
\* the App holds.  The RawDataTable is mounted in the RAW view only, with
\* page 1 and the default page size.
SetViewMode ==
  /\ step = "WORKSPACE"
  /\ \E mode \in ViewModes :
       /\ viewMode' = mode
       /\ IF mode = "RAW" /\ viewMode = "RAW"
          THEN UNCHANGED pageVars
          ELSE /\ currentPage' = 1
               /\ rowsPerPage' = DefaultRowsPerPage
       /\ IF mode # "ANALYSIS"
          THEN /\ history' = << >>
               /\ historyIndex' = 0
               /\ searchTerm' = << >>
               /\ sortConfig' = defaultSortConfig
          ELSE IF viewMode # "ANALYSIS" /\ selectedColumn # "" /\ results # << >>
          THEN /\ history' = initialHistory(results[1])
               /\ historyIndex' = 0
               /\ UNCHANGED <<searchTerm, sortConfig>>
          ELSE UNCHANGED <<history, historyIndex, searchTerm, sortConfig>>
  /\ lastOp' = Op("view", FALSE, 0, 0)
  /\ UNCHANGED <<fullDataset, selectedColumn, results, exported, heapVars, batchVars,
                 chatVars, stackVars, step, allSheets, activeSheetName,
                 distributionVars>>

\* The chat hands the App a new version of the active sheet.
AppUpdateData ==
  /\ step = "WORKSPACE"
  /\ \E newData \in AppUpdateDatasets : handleUpdateData(newData)

\* handleChartGeneratedFromChat
ChartGenerated ==
  /\ step = "WORKSPACE"
  /\ generatedChart' = <<[data |-> "array"]>>
  /\ lastOp' = Op("chart", FALSE, 0, 0)
  /\ UNCHANGED <<fullDataset, selectedColumn, results, history, historyIndex, tableVars,
                 heapVars, batchVars, reply, toolResult, stackVars, appVars, pageVars,
                 distributionVars>>

\* handleReset, the "Remove File" button: back to the UPLOAD step.
Reset ==
  /\ step = "WORKSPACE"
  /\ step' = "UPLOAD"
  /\ fullDataset' = << >>
  /\ allSheets' = << >>
  /\ activeSheetName' = ""
  /\ selectedColumn' = ""
  /\ results' = << >>
  /\ generatedChart' = << >>
  /\ viewMode' = "RAW"
  /\ history' = << >>
  /\ historyIndex' = 0
  /\ searchTerm' = << >>
  /\ sortConfig' = defaultSortConfig
  /\ currentPage' = 1
  /\ rowsPerPage' = DefaultRowsPerPage
  /\ lastOp' = Op("close", FALSE, 0, 0)
  /\ UNCHANGED <<exported, heapVars, batchVars, reply, toolResult, stackVars,
                 distributionVars>>

NextApp ==
  \/ DataLoaded
  \/ SwitchSheet
  \/ SetViewMode
  \/ ColumnAnalyze
  \/ AnalyzeAnother
  \/ AppUpdateData
  \/ ChartGenerated
  \/ Reset

SpecApp == InitApp /\ [][NextApp]_vars

\* ----------------------------------------------------------- RawDataTable
\* The options of the "Rows" select that the model uses.
RowsPerPageOptions == {DefaultRowsPerPage, 2 * DefaultRowsPerPage}

\* A sheet of n rows.
SheetOfLength(n) == [i \in 1..n |-> [c |-> StringCell(<<"b">>)]]

\* The sheets of the grid: none, one and two full pages of the default size,
\* and up to MaxGridRows rows.
GridDatasets ==
  {SheetOfLength(n) : n \in {0, DefaultRowsPerPage, 2 * DefaultRowsPerPage, MaxGridRows}}

GridWorkbooks == UNION {[names -> GridDatasets] : names \in SUBSET SheetNames}

\* Math.ceil(data.length / rowsPerPage)
totalPages == (Len(fullDataset) + rowsPerPage - 1) \div rowsPerPage

RawDataTableMounted == step = "WORKSPACE" /\ viewMode = "RAW"

\* The four page buttons call handlePageChange with page 1, the page before,
\* the page after and the last page; a disabled button does not.
PageButtons ==
  (IF currentPage = 1 THEN {} ELSE {1, currentPage - 1})
    \cup (IF currentPage = totalPages THEN {} ELSE {currentPage + 1, totalPages})

\* handlePageChange: the new currentPage.
handlePageChange(page) ==
  IF page >= 1 /\ page <= totalPages THEN page ELSE currentPage

PageChange ==
  /\ RawDataTableMounted
  /\ \E page \in PageButtons :
       /\ currentPage' = handlePageChange(page)
       /\ lastOp' = Op("page", page >= 1 /\ page <= totalPages, 0, 0)
  /\ UNCHANGED <<fullDataset, selectedColumn, results, history, historyIndex, tableVars,
                 heapVars, batchVars, chatVars, stackVars, appVars, rowsPerPage,
                 distributionVars>>

\* handleRowsPerPageChange
RowsPerPageChange ==
  /\ RawDataTableMounted
  /\ \E value \in RowsPerPageOptions :
       /\ rowsPerPage' = value
       /\ currentPage' = 1
       /\ lastOp' = Op("rows", FALSE, 0, 0)
  /\ UNCHANGED <<fullDataset, selectedColumn, results, history, historyIndex, tableVars,
                 heapVars, batchVars, chatVars, stackVars, appVars,
                 distributionVars>>

GridDataLoaded ==
  /\ step = "UPLOAD"
  /\ \E sheetsData \in GridWorkbooks : handleDataLoaded(sheetsData)

GridUpdateData ==
  /\ step = "WORKSPACE"
  /\ \E newData \in GridDatasets : handleUpdateData(newData)

NextGrid ==
  \/ GridDataLoaded
  \/ SwitchSheet
  \/ SetViewMode
  \/ GridUpdateData
  \/ PageChange
  \/ RowsPerPageChange
  \/ Reset

\* The App with its grid view.
SpecGrid == InitApp /\ [][NextGrid]_vars

\* ------------------------------------------------- the table and its export
\* The texts typed into the filter box.
SearchTerms == {<< >>, <<"b">>, <<"A">>}

\* onChange of the filter box
SetSearchTerm ==
  /\ DashboardMounted
  /\ \E term \in SearchTerms :
       /\ term # searchTerm
       /\ searchTerm' = term
  /\ lastOp' = Op("search", FALSE, historyIndex, Len(history))
  /\ UNCHANGED <<fullDataset, selectedColumn, results, history, historyIndex,
                 sortConfig, exported, heapVars, batchVars, otherVars>>

\* A click on the header of the name or of the count column.
HandleSort ==
  /\ DashboardMounted
  /\ \E key \in {"originalName", "count"} : sortConfig' = handleSort(sortConfig, key)
  /\ lastOp' = Op("sort", FALSE, historyIndex, Len(history))
  /\ UNCHANGED <<fullDataset, selectedColumn, results, history, historyIndex,
                 searchTerm, exported, heapVars, batchVars, otherVars>>

\* The Export CSV button: exportToCSV(sortedData, originalColumnName), for the
\* data prop currentStats.data.
ExportCSV ==
  /\ DashboardMounted
  /\ exported' = <<sortedData(currentStats.data, searchTerm, sortConfig)>>
  /\ lastOp' = Op("export", searchTerm # << >>, historyIndex, Len(history))
  /\ UNCHANGED <<fullDataset, selectedColumn, results, history, historyIndex,
                 searchTerm, sortConfig, heapVars, batchVars, otherVars>>

\* The sheets of the table's specification.
TableRows ==
  {[c |-> v] : v \in {StringCell(<<" ", "A", "b", " ">>), StringCell(<<"b">>)}}

TableDatasets == SeqsUpTo(TableRows, MaxRows)

InitTable == InitWith(TableDatasets)

NextTable ==
  \/ ColumnAnalyze
  \/ AnalyzeAnother
  \/ DeleteRow
  \/ Undo
  \/ Redo
  \/ SetSearchTerm
  \/ HandleSort
  \/ ExportCSV

\* The Dashboard with its DataTable.
SpecTable == InitTable /\ [][NextTable]_vars

\* ------------------------------------------- the objects of the snapshots
\* ids.filter(id => item(id).originalName !== originalName)
RECURSIVE filterOutIds(_, _, _)
filterOutIds(items, ids, originalName) ==
  IF ids = << >> THEN << >>
  ELSE IF items[Head(ids)].originalName # originalName
       THEN <<Head(ids)>> \o filterOutIds(items, Tail(ids), originalName)
       ELSE filterOutIds(items, Tail(ids), originalName)

\* The values of the items an array holds.
valuesOf(items, ids) == [i \in 1..Len(ids) |-> items[ids[i]]]

\* handleDeleteRow that sets the percentage on the item objects of the current
\* snapshot and puts them, not copies, into the new one
deleteRowObjectsInPlace(items, arrays, href, idx, originalName) ==
  LET filteredData == filterOutIds(items, arrays[href[idx + 1]], originalName)
      newTotal == Sum(valuesOf(items, filteredData))
      newItems == [id \in 1..Len(items) |->
                     IF \E i \in 1..Len(filteredData) : filteredData[i] = id
                     THEN [items[id] EXCEPT !.percentage = percentageOf(items[id].count, newTotal)]
                     ELSE items[id]]
      newArrays == Append(arrays, filteredData)
  IN  [heapItems |-> newItems,
       heapArrays |-> newArrays,
       historyRef |-> Append(SubSeq(href, 1, idx + 1), Len(newArrays))]

\* handleDeleteRow on the objects: filter makes an array of the items kept, map
\* makes a new object {...item, percentage} for each of them and a new array
\* of these (newData), slice makes a new history array.  Arrays that are
\* dropped at once (the result of filter) get no id.
deleteRowObjects(items, arrays, href, idx, originalName) ==
  LET filteredData == filterOutIds(items, arrays[href[idx + 1]], originalName)
      newTotal == Sum(valuesOf(items, filteredData))
      copies == [i \in 1..Len(filteredData) |->
                   [items[filteredData[i]] EXCEPT
                      !.percentage = percentageOf(items[filteredData[i]].count, newTotal)]]
      newData == [i \in 1..Len(filteredData) |-> Len(items) + i]
      newArrays == Append(arrays, newData)
  IN  [heapItems |-> items \o copies,
       heapArrays |-> newArrays,
       historyRef |-> Append(SubSeq(href, 1, idx + 1), Len(newArrays))]

\* handleResetData on the objects: [...history[0]] is a new array of the same
\* item objects.
resetDataObjects(items, arrays, href) ==
  LET originalData == arrays[href[1]]
      newArrays == Append(arrays, originalData)
  IN  [heapItems |-> items, heapArrays |-> newArrays, historyRef |-> <<Len(newArrays)>>]

\* The sheets analysed where the objects are told apart.
ObjectDatasets ==
  SeqsUpTo({[c |-> StringCell(<<" ", "A", "b", " ">>)], [c |-> StringCell(<<"b">>)]}, MaxRows)

\* The Dashboard just mounted on the analysis of a sheet: the item objects of
\* results.data (ids 1..n), the array results.data (id 1) and the first
\* snapshot [...results.data] (id 2), which holds the same item objects.
InitObjects ==
  /\ fullDataset \in ObjectDatasets
  /\ selectedColumn = "c"
  /\ results = <<analyzeData(fullDataset, selectedColumn)>>
  /\ history = initialHistory(results[1])
  /\ historyIndex = 0
  /\ lastOp = Op("analyze", FALSE, 0, 0)
  /\ searchTerm = << >>
  /\ sortConfig = defaultSortConfig
  /\ exported = << >>
  /\ heapItems = results[1].data
  /\ heapArrays = << [i \in 1..Len(results[1].data) |-> i],
                     [i \in 1..Len(results[1].data) |-> i] >>
  /\ historyRef = <<2>>
  /\ closure = [history |-> << >>, historyIndex |-> 0]
  /\ sequential = [history |-> << >>, historyIndex |-> 0]
  /\ pending = 0
  /\ InitOther

DeleteRowObjects ==
  /\ \E originalName \in DeleteNames :
       LET next == handleDeleteRow(history, historyIndex, originalName)
           objects == deleteRowObjects(heapItems, heapArrays, historyRef, historyIndex,
                                       originalName)
       IN  /\ Len(next.history) <= MaxHistory
           /\ Len(objects.heapItems) + Len(objects.heapArrays) <= MaxObjects
           /\ history' = next.history
           /\ historyIndex' = next.historyIndex
           /\ heapItems' = objects.heapItems
           /\ heapArrays' = objects.heapArrays
           /\ historyRef' = objects.historyRef
           /\ lastOp' = Op("delete", originalName \in NamesOf(currentData),
                           historyIndex, Len(history))
  /\ UNCHANGED <<fullDataset, selectedColumn, results, tableVars, batchVars, otherVars>>

UndoObjects ==
  /\ historyIndex' = handleUndo(history, historyIndex)
  /\ lastOp' = Op("undo", FALSE, historyIndex, Len(history))
  /\ UNCHANGED <<fullDataset, selectedColumn, results, history, tableVars, heapVars, batchVars, otherVars>>

RedoObjects ==
  /\ historyIndex' = handleRedo(history, historyIndex)
  /\ lastOp' = Op("redo", FALSE, historyIndex, Len(history))
  /\ UNCHANGED <<fullDataset, selectedColumn, results, history, tableVars, heapVars, batchVars, otherVars>>

\* handleResetData, confirmed.
ResetDataObjects ==
  /\ LET next == handleResetData(history, historyIndex)
         objects == resetDataObjects(heapItems, heapArrays, historyRef)
     IN  /\ Len(objects.heapItems) + Len(objects.heapArrays) <= MaxObjects
         /\ history' = next.history
         /\ historyIndex' = next.historyIndex
         /\ heapItems' = objects.heapItems
         /\ heapArrays' = objects.heapArrays
         /\ historyRef' = objects.historyRef
         /\ lastOp' = Op("reset", TRUE, historyIndex, Len(history))
  /\ UNCHANGED <<fullDataset, selectedColumn, results, tableVars, batchVars, otherVars>>

NextObjects ==
  \/ DeleteRowObjects
  \/ UndoObjects
  \/ RedoObjects
  \/ ResetDataObjects

\* The Dashboard's history with its objects told apart.
SpecObjects == InitObjects /\ [][NextObjects]_vars

\* ------------------------------------- invocations between two renders
\* A handler is a closure of the render that made it: it reads the history and
\* historyIndex of that render, and setHistory(value) / setHistoryIndex(value)
\* replace the state to come; a later invocation from the same render reads
\* the same values again.
State(hist, idx) == [history |-> hist, historyIndex |-> idx]

\* The Dashboard just mounted on the analysis of a sheet.
InitBatch ==
  /\ fullDataset \in ObjectDatasets
  /\ selectedColumn = "c"
  /\ results = <<analyzeData(fullDataset, selectedColumn)>>
  /\ history = initialHistory(results[1])
  /\ historyIndex = 0
  /\ lastOp = Op("analyze", FALSE, 0, 0)
  /\ searchTerm = << >>
  /\ sortConfig = defaultSortConfig
  /\ exported = << >>
  /\ heapItems = << >>
  /\ heapArrays = << >>
  /\ historyRef = << >>
  /\ closure = State(history, historyIndex)
  /\ sequential = State(history, historyIndex)
  /\ pending = 0
  /\ InitOther

\* The frame of an invocation: the Dashboard of the last render is on screen.
Invoked ==
  /\ closure.historyIndex < Len(closure.history)
  /\ pending < MaxBatch
  /\ pending' = pending + 1
  /\ UNCHANGED <<fullDataset, selectedColumn, results, tableVars, heapVars, closure, otherVars>>

InvokeDeleteRow ==
  /\ Invoked
  /\ \E originalName \in DeleteNames :
       LET next == handleDeleteRow(closure.history, closure.historyIndex, originalName)
           alone == handleDeleteRow(sequential.history, sequential.historyIndex,
                                    originalName)
       IN  /\ Len(next.history) <= MaxHistory
           /\ Len(alone.history) <= MaxHistory
           /\ history' = next.history
           /\ historyIndex' = next.historyIndex
           /\ sequential' = alone
           /\ lastOp' = Op("delete", FALSE, closure.historyIndex, Len(closure.history))

\* handleUndo calls setHistoryIndex only under its guard.
InvokeUndo ==
  /\ Invoked
  /\ historyIndex' = IF closure.historyIndex > 0
                      THEN handleUndo(closure.history, closure.historyIndex)
                      ELSE historyIndex
  /\ sequential' = [sequential EXCEPT
                       !.historyIndex = handleUndo(sequential.history, sequential.historyIndex)]
  /\ lastOp' = Op("undo", FALSE, closure.historyIndex, Len(closure.history))
  /\ UNCHANGED history

\* handleRedo calls setHistoryIndex only under its guard.
InvokeRedo ==
  /\ Invoked
  /\ historyIndex' = IF closure.historyIndex < Len(closure.history) - 1
                      THEN handleRedo(closure.history, closure.historyIndex)
                      ELSE historyIndex
  /\ sequential' = [sequential EXCEPT
                       !.historyIndex = handleRedo(sequential.history, sequential.historyIndex)]
  /\ lastOp' = Op("redo", FALSE, closure.historyIndex, Len(closure.history))
  /\ UNCHANGED history

\* handleResetData, confirmed.
InvokeResetData ==
  /\ Invoked
  /\ LET next == handleResetData(closure.history, closure.historyIndex)
     IN  /\ history' = next.history
         /\ historyIndex' = next.historyIndex
  /\ sequential' = handleResetData(sequential.history, sequential.historyIndex)
  /\ lastOp' = Op("reset", TRUE, closure.historyIndex, Len(closure.history))

\* The render after the invocations: its handlers see the state that was set,
\* and the invocations to come are counted from it.  (A render with
\* historyIndex beyond the history has no currentData and throws: it is the
\* last one.)
Render ==
  /\ pending > 0
  /\ pending' = 0
  /\ closure' = State(history, historyIndex)
  /\ sequential' = State(history, historyIndex)
  /\ lastOp' = Op("render", pending > 1, closure.historyIndex, Len(closure.history))
  /\ UNCHANGED <<fullDataset, selectedColumn, results, history, historyIndex,
                 tableVars, heapVars, otherVars>>

NextBatch ==
  \/ InvokeDeleteRow
  \/ InvokeUndo
  \/ InvokeRedo
  \/ InvokeResetData
  \/ Render

\* The Dashboard's handlers, invoked one or more times between two renders.
SpecBatch == InitBatch /\ [][NextBatch]_vars

\* ------------------------------------------------- the chat's transform code
\* The code of a reply, by what running it does: it does not compile (new
\* Function throws a SyntaxError), it returns a value, or it throws one.
Code(compiles, run, value) == [compiles |-> compiles, run |-> run, value |-> value]

Codes ==
  {Code(FALSE, "return", "undefined")}
  \cup {Code(TRUE, "return", v) : v \in {"array", "number", "object", "undefined"}}
  \cup {Code(TRUE, "throw", v) : v \in {"Error", "string", "null", "undefined"}}

\* error.message in the catch block: reading a property of null or undefined
\* is a TypeError.
messageThrows(error) == error \in {"null", "undefined"}

\* The outcome of safeEvaluate: it returns {success, result} or {success,
\* error}, or an exception leaves it (threw).
Returned(success, result, error) ==
  [threw |-> FALSE, success |-> success, result |-> result, error |-> error]

Threw == [threw |-> TRUE, success |-> FALSE, result |-> "none", error |-> "none"]

\* safeEvaluate(code, context), for the data of the context loaded or not.
safeEvaluate(code, loaded) ==
  IF ~loaded THEN Returned(FALSE, "none", "message")
  ELSE IF ~code.compiles THEN Returned(FALSE, "none", "message")
  ELSE IF code.run = "return" THEN Returned(TRUE, code.value, "none")
  ELSE IF messageThrows(code.value) THEN Threw
  ELSE Returned(FALSE, "none", IF code.value = "Error" THEN "message" ELSE "undefined")

\* The parsed replies of the model.
Replies ==
  {[type |-> "text", code |-> Code(TRUE, "return", "undefined")]}
  \cup {[type |-> t, code |-> c] : t \in {"code", "chart_generation"}, c \in Codes}

\* handleSendMessage from the parsed reply on: the code of a code or chart
\* reply is evaluated, a chart whose code gave an array is handed to the App
\* (onChartGenerated, which sets generatedChart), and the toolResult of the
\* new message is set.  An exception out of safeEvaluate ends in the catch of
\* handleSendMessage: a "System Error" message without toolResult.
SendMessage ==
  /\ \E parsed \in Replies, loaded \in BOOLEAN :
       LET exec == safeEvaluate(parsed.code, loaded)
       IN  /\ reply' = <<parsed>>
           /\ IF parsed.type = "text"
              THEN /\ toolResult' = << >>
                   /\ lastOp' = Op("chat", FALSE, 0, 0)
                   /\ UNCHANGED generatedChart
              ELSE IF exec.threw
              THEN /\ toolResult' = << >>
                   /\ lastOp' = Op("chat", TRUE, 0, 0)
                   /\ UNCHANGED generatedChart
              ELSE /\ lastOp' = Op("chat", FALSE, 0, 0)
                   /\ IF parsed.type = "code"
                      THEN /\ toolResult' = <<IF exec.success THEN "code_execution" ELSE "error">>
                           /\ UNCHANGED generatedChart
                      ELSE IF exec.success /\ exec.result = "array"
                      THEN /\ toolResult' = <<"chart_success">>
                           /\ generatedChart' = <<[data |-> exec.result]>>
                      ELSE /\ toolResult' = <<"error">>
                           /\ UNCHANGED generatedChart
  /\ UNCHANGED <<fullDataset, selectedColumn, results, history, historyIndex,
                 tableVars, heapVars, batchVars, stackVars, appVars, pageVars,
                 distributionVars>>

InitChat == InitWith(ParsedDatasets)

NextChat ==
  \/ ColumnAnalyze
  \/ AnalyzeAnother
  \/ SendMessage

\* The App with its chat.
SpecChat == InitChat /\ [][NextChat]_vars

\* ================================================================ claims
Stepped(op) == lastOp'.op = op

\* ---- C1: whenever the Dashboard is mounted, after initialisation and after
\* every sequence of delete, undo, redo and reset, the history is non-empty and
\* 0 <= historyIndex < history.length.
C1_CursorInRange ==
  DashboardMounted => Len(history) >= 1 /\ 0 <= historyIndex /\ historyIndex < Len(history)

\* a redo has just been asked for at the last of at least three snapshots
C1_Witness ==
  /\ DashboardMounted
  /\ lastOp.op = "redo"
  /\ lastOp.fromIndex = lastOp.fromLen - 1
  /\ Len(history) >= 3

\* ---- C2: a delete at cursor c leaves snapshots[0..c] followed by the one new
\* snapshot, with the cursor on it; a redo right after it is a no-op; and undo
\* and redo never change the snapshot sequence, so nothing that was discarded
\* comes back.
C2_DeleteDiscardsRedoBranch ==
  [][/\ Stepped("delete") =>
          /\ Len(history') = historyIndex + 2
          /\ SubSeq(history', 1, historyIndex + 1) = SubSeq(history, 1, historyIndex + 1)
          /\ historyIndex' = Len(history') - 1
          /\ handleRedo(history', historyIndex') = historyIndex'
     /\ Stepped("undo") \/ Stepped("redo") => history' = history]_vars

\* a delete has just discarded a redo branch of two snapshots
C2_Witness ==
  /\ lastOp.op = "delete"
  /\ lastOp.fromLen = lastOp.fromIndex + 3
  /\ Len(history) = lastOp.fromIndex + 2

\* ---- C3: whenever cursor > 0, undo moves to the snapshot before (after one
\* delete from S0: exactly S0) and a following redo returns to the same
\* history and cursor; whenever cursor < length - 1, redo followed by undo
\* does too.
C3_UndoRedoRoundTrip ==
  [][/\ Stepped("undo") /\ historyIndex > 0 =>
          /\ history' = history
          /\ currentData' = history[historyIndex]
          /\ handleRedo(history', historyIndex') = historyIndex
     /\ Stepped("redo") /\ historyIndex < Len(history) - 1 =>
          /\ history' = history
          /\ currentData' = history[historyIndex + 2]
          /\ handleUndo(history', historyIndex') = historyIndex]_vars

\* an undo has just gone from the last of three snapshots to the middle one
C3_Witness ==
  /\ lastOp.op = "undo"
  /\ lastOp.fromIndex = 2
  /\ lastOp.fromLen = 3
  /\ historyIndex = 1
  /\ history[3] # history[2]

\* ---- C4: undo at cursor 0 and redo at the last snapshot change neither the
\* snapshots nor the cursor, and the cursor stays in range (no error).
C4_BoundaryNoOp ==
  [][(\/ Stepped("undo") /\ historyIndex = 0
      \/ Stepped("redo") /\ historyIndex = Len(history) - 1) =>
        /\ history' = history
        /\ historyIndex' = historyIndex
        /\ currentStats' = currentStats
        /\ 0 <= historyIndex' /\ historyIndex' < Len(history')]_vars

\* an undo has just been asked for at the origin of a history with a redo branch
C4_Witness ==
  /\ lastOp.op = "undo"
  /\ lastOp.fromIndex = 0
  /\ historyIndex = 0
  /\ Len(history) >= 2

\* ---- C5: a confirmed reset leaves exactly one snapshot, equal to the one
\* that was at index 0, with cursor 0; redo and undo right after are no-ops.
C5_ResetToOrigin ==
  [][Stepped("reset") /\ lastOp'.flag =>
        /\ history' = <<history[1]>>
        /\ historyIndex' = 0
        /\ handleRedo(history', historyIndex') = 0
        /\ handleUndo(history', historyIndex') = 0]_vars

\* a reset has just been confirmed after two deletes
C5_Witness ==
  /\ lastOp.op = "reset"
  /\ lastOp.flag
  /\ lastOp.fromLen = 3
  /\ lastOp.fromIndex = 2
  /\ Len(history) = 1

\* ---- C6: the origin snapshot is preserved verbatim: after any sequence of
\* delete, undo, redo and reset, snapshots[0] is the item list of the analysis
\* result, in its order, with its counts and its percentages.
C6_OriginPreserved ==
  DashboardMounted => history[1] = results[1].data

\* a reset has just been confirmed from a later snapshot whose percentages
\* had been recomputed
C6_Witness ==
  /\ lastOp.op = "reset"
  /\ lastOp.flag
  /\ lastOp.fromIndex >= 1
  /\ Len(results[1].data) >= 2
  /\ history[1][1].percentage < 100000000

\* ---- C7: deleting a category that is in the current snapshot gives a new
\* current snapshot holding every other item, in order, with its key, name and
\* count unchanged; the new total is the old total minus the deleted count;
\* every percentage is count / newTotal * 100 (a single remaining item has
\* 100); deleting the last item gives an empty snapshot with total 0 and 0
\* categories.
SameButPercentage(a, b) ==
  a.name = b.name /\ a.originalName = b.originalName /\ a.count = b.count

C7_DeleteRecalculates ==
  [][Stepped("delete") /\ lastOp'.flag =>
        \E d \in 1..Len(currentData) :
          /\ Len(currentData') = Len(currentData) - 1
          /\ \A i \in 1..Len(currentData') :
               /\ SameButPercentage(currentData'[i],
                                    IF i < d THEN currentData[i] ELSE currentData[i + 1])
               /\ currentData'[i].percentage * currentStats'.totalRows
                    \in (currentData'[i].count * 100000000 - currentStats'.totalRows)
                        .. (currentData'[i].count * 100000000 + currentStats'.totalRows)
          /\ currentStats'.totalRows = currentStats.totalRows - currentData[d].count
          /\ currentStats'.uniqueCategories = currentStats.uniqueCategories - 1
          /\ Len(currentData') = 1 => currentData'[1].percentage = 100000000
          /\ Len(currentData) = 1 =>
               currentData' = << >> /\ currentStats'.totalRows = 0
                                    /\ currentStats'.uniqueCategories = 0]_vars

\* the larger of two categories (2 rows against 1) has just been deleted: the
\* other one went from a third to 100%
C7_Witness ==
  /\ lastOp.op = "delete"
  /\ lastOp.flag
  /\ lastOp.fromIndex = 0
  /\ Len(history[1]) = 2
  /\ history[1][1].count = 2
  /\ Len(currentData) = 1
  /\ currentData[1].originalName = history[1][2].originalName
  /\ history[1][2].percentage = 33333333
  /\ currentData[1].percentage = 100000000

\* ---- C8 as claimed: deleting a name that is not in the current snapshot
\* leaves the snapshot sequence and the cursor unchanged.
C8_AbsentDeleteLeavesHistory ==
  [][Stepped("delete") /\ ~lastOp'.flag =>
        history' = history /\ historyIndex' = historyIndex]_vars

\* ---- C8 amended: deleting a name that is not in the current snapshot shows
\* the same result as before (items, counts, percentages, totals), but it is an
\* edit of the history: the snapshots after the cursor are discarded, a copy of
\* the current snapshot is appended and the cursor moves onto it.
C8_AbsentDeleteIsIdentityEdit ==
  [][Stepped("delete") /\ ~lastOp'.flag =>
        /\ history' = Append(SubSeq(history, 1, historyIndex + 1), currentData)
        /\ historyIndex' = historyIndex + 1
        /\ currentStats' = currentStats]_vars

\* a delete of an absent name has just discarded a redo branch
C8_Witness ==
  /\ lastOp.op = "delete"
  /\ ~lastOp.flag
  /\ lastOp.fromLen > lastOp.fromIndex + 1
  /\ Len(history) = lastOp.fromIndex + 2
  /\ currentData = history[historyIndex]

\* ---------------------------------------------------- claims on analyzeData
\* The key each cell value of the model is expected to have, written out value
\* by value (<< >> is the empty string).
ExpectedKey(val) ==
  CASE val = NullCell -> << >>
    [] val = UndefinedCell -> << >>
    [] val = StringCell(<< >>) -> << >>
    [] val = StringCell(<<" ">>) -> << >>
    [] val = NumberCell(5) -> <<"5">>
    [] val = StringCell(<<"5">>) -> <<"5">>
    [] val = StringCell(<<" ", "A", "b", " ">>) -> <<"a", "b">>
    [] val = StringCell(<<"a", "b">>) -> <<"a", "b">>
    [] val = StringCell(<<"A", "B">>) -> <<"a", "b">>
    [] val = StringCell(<<"b">>) -> <<"b">>
    [] val = StringCell(<<"U+00E9">>) -> <<"U+00E9">>
    [] val = StringCell(<<"e", "U+0301">>) -> <<"e", "U+0301">>

\* The rows of the sheet that have the analysed column with the given key.
RowsWithKey(key) ==
  {j \in 1..Len(fullDataset) :
     /\ selectedColumn \in DOMAIN fullDataset[j]
     /\ ExpectedKey(fullDataset[j][selectedColumn]) = key}

\* The non-empty keys of the sheet's rows.
KeysOfSheet ==
  {ExpectedKey(fullDataset[j][selectedColumn]) :
     j \in {k \in 1..Len(fullDataset) : selectedColumn \in DOMAIN fullDataset[k]}}
  \ {<< >>}

Analyzed == results # << >> /\ lastOp.op = "analyze"

\* ---- C9: for every sheet and column, the result of analyzeData has
\* totalRows = the sum of the item counts = the number of rows that have the
\* column with a non-empty normalized value, uniqueCategories = the number of
\* items, and every count >= 1.
C9_TotalsAndCounts ==
  Analyzed =>
    LET r == results[1]
        counted == UNION {RowsWithKey(key) : key \in KeysOfSheet}
    IN  /\ r.totalRows = Cardinality(counted)
        /\ r.totalRows = Sum(r.data)
        /\ r.uniqueCategories = Len(r.data)
        /\ \A i \in 1..Len(r.data) : r.data[i].count >= 1

\* a sheet of three rows was analysed: one row was skipped, the two others
\* have the same key
C9_Witness ==
  /\ Analyzed
  /\ Len(fullDataset) = 3
  /\ \E j \in 1..3 : selectedColumn \in DOMAIN fullDataset[j]
                     /\ fullDataset[j][selectedColumn] = StringCell(<<" ">>)
  /\ results[1].totalRows = 2
  /\ results[1].uniqueCategories = 1

\* ---- C10: analyzeData groups by the trimmed, lower-cased string form of the
\* cell: there is exactly one item per distinct non-empty key of the sheet, and
\* its count is the number of rows with that key (so two rows are counted in
\* the same item exactly when their keys are equal).
C10_GroupsByNormalizedKey ==
  Analyzed =>
    LET r == results[1]
    IN  /\ {r.data[i].name : i \in 1..Len(r.data)} = KeysOfSheet
        /\ Len(r.data) = Cardinality(KeysOfSheet)
        /\ \A i \in 1..Len(r.data) :
             r.data[i].count = Cardinality(RowsWithKey(r.data[i].name))

\* three spellings of one value were analysed into one item of count 3
C10_Witness ==
  /\ Analyzed
  /\ fullDataset = << [c |-> StringCell(<<" ", "A", "b", " ">>)],
                      [c |-> StringCell(<<"a", "b">>)],
                      [c |-> StringCell(<<"A", "B">>)] >>
  /\ Len(results[1].data) = 1
  /\ results[1].data[1].count = 3
  /\ results[1].data[1].name = <<"a", "b">>

\* The display form each cell value of the model is expected to have: its
\* string form without the surrounding whitespace, in its own case.
ExpectedDisplay(val) ==
  CASE val = NullCell -> <<"n", "u", "l", "l">>
    [] val = UndefinedCell -> <<"u", "n", "d", "e", "f", "i", "n", "e", "d">>
    [] val = StringCell(<< >>) -> << >>
    [] val = StringCell(<<" ">>) -> << >>
    [] val = NumberCell(5) -> <<"5">>
    [] val = StringCell(<<"5">>) -> <<"5">>
    [] val = StringCell(<<" ", "A", "b", " ">>) -> <<"A", "b">>
    [] val = StringCell(<<"a", "b">>) -> <<"a", "b">>
    [] val = StringCell(<<"A", "B">>) -> <<"A", "B">>
    [] val = StringCell(<<"b">>) -> <<"b">>
    [] val = StringCell(<<"U+00E9">>) -> <<"U+00E9">>
    [] val = StringCell(<<"e", "U+0301">>) -> <<"e", "U+0301">>

\* The first row of the sheet with the given key.
FirstRowWithKey(key) ==
  CHOOSE j \in RowsWithKey(key) : \A k \in RowsWithKey(key) : j <= k

\* ---- C11: the displayName (originalName) of every item is the trimmed,
\* case-preserved string form of the cell of the first row with the item's
\* key; rows with the same key further down the sheet never change it.
C11_DisplayOfFirstRow ==
  Analyzed =>
    \A i \in 1..Len(results[1].data) :
      LET item == results[1].data[i]
      IN  /\ RowsWithKey(item.name) # {}
          /\ item.originalName =
               ExpectedDisplay(fullDataset[FirstRowWithKey(item.name)][selectedColumn])

\* " Ab " then "AB" then "ab" were analysed: one item of count 3 named "Ab"
C11_Witness ==
  /\ Analyzed
  /\ fullDataset = << [c |-> StringCell(<<" ", "A", "b", " ">>)],
                      [c |-> StringCell(<<"A", "B">>)],
                      [c |-> StringCell(<<"a", "b">>)] >>
  /\ Len(results[1].data) = 1
  /\ results[1].data[1].count = 3
  /\ results[1].data[1].originalName = <<"A", "b">>

\* A row the analyser is expected to skip: it lacks the column, or its cell is
\* null, undefined, the empty string or whitespace only.
Skipped(row) ==
  \/ selectedColumn \notin DOMAIN row
  \/ row[selectedColumn] \in {NullCell, UndefinedCell, StringCell(<< >>), StringCell(<<" ">>)}

\* ---- C12: rows that lack the column, or whose value is null, undefined,
\* empty or whitespace-only, are skipped: they are not counted in totalRows and
\* give no item (none named "", "null" or "undefined"); a sheet with no rows, or
\* with only such rows, gives totalRows 0, uniqueCategories 0 and no items.
C12_SkipsEmptyRows ==
  Analyzed =>
    LET r == results[1]
        kept == {j \in 1..Len(fullDataset) : ~Skipped(fullDataset[j])}
    IN  /\ r.totalRows = Cardinality(kept)
        /\ Sum(r.data) = Cardinality(kept)
        /\ \A i \in 1..Len(r.data) :
             /\ r.data[i].name \notin {<< >>, <<" ">>, String(NullCell), String(UndefinedCell)}
             /\ r.data[i].originalName # << >>
        /\ kept = {} => r = [totalRows |-> 0, uniqueCategories |-> 0, data |-> << >>]

\* a row without the column, a null row and a whitespace row were analysed
\* into the empty result
C12_Witness ==
  /\ Analyzed
  /\ fullDataset = << << >>, [c |-> NullCell], [c |-> StringCell(<<" ">>)] >>
  /\ results[1] = [totalRows |-> 0, uniqueCategories |-> 0, data |-> << >>]

\* ---- C13 as claimed: the items are ordered by count, high to low, and items
\* with the same count by ascending displayName, and the order is total: of
\* two neighbouring items the first has the larger count, or the same count and
\* a name that compares strictly before the other's.
C13_StrictlyOrdered ==
  Analyzed =>
    \A i \in 1..(Len(results[1].data) - 1) :
      LET a == results[1].data[i]
          b == results[1].data[i + 1]
      IN  \/ a.count > b.count
          \/ a.count = b.count /\ localeCompare(a.originalName, b.originalName) < 0

\* ------------------------------------------- claims on results and snapshots
RECURSIVE SumPercentage(_)
SumPercentage(items) ==
  IF items = << >> THEN 0 ELSE Head(items).percentage + SumPercentage(Tail(items))

\* For an item list with a positive total: every percentage is count / total *
\* 100 of the list's own total (to the model's rounding), lies in [0, 100], and
\* the percentages add up to 100 within 0.001.
PercentagesConserved(items) ==
  LET total == Sum(items)
  IN  total > 0 =>
        /\ \A i \in 1..Len(items) :
             /\ 0 <= items[i].percentage /\ items[i].percentage <= 100000000
             /\ items[i].percentage * total
                  \in (items[i].count * 100000000 - total) .. (items[i].count * 100000000 + total)
        /\ SumPercentage(items) \in 99999000 .. 100001000

\* ---- C14: in the analysis result and in every snapshot of the history whose
\* total is positive, each percentage is count / total * 100 for that list's
\* own total, lies in [0, 100], and the percentages sum to 100 within
\* [99.999, 100.001].
C14_PercentageConservation ==
  /\ results # << >> =>
        /\ results[1].totalRows = Sum(results[1].data)
        /\ PercentagesConserved(results[1].data)
  /\ \A k \in 1..Len(history) : PercentagesConserved(history[k])

\* three items of a third each at the origin, and after a delete two items of
\* a half each
C14_Witness ==
  /\ DashboardMounted
  /\ Len(history) = 2 /\ historyIndex = 1
  /\ Len(history[1]) = 3
  /\ \A i \in 1..3 : history[1][i].percentage = 33333333
  /\ Len(history[2]) = 2
  /\ \A i \in 1..2 : history[2][i].percentage = 50000000

\* ---- C20: within every snapshot no two items have the same displayName, so
\* a delete by displayName removes exactly one item when the name is in the
\* current snapshot and none otherwise.
C20_DisplayNameUnique ==
  /\ \A k \in 1..Len(history) :
       \A i, j \in 1..Len(history[k]) :
         i # j => history[k][i].originalName # history[k][j].originalName
  /\ DashboardMounted /\ lastOp.op = "delete" =>
       /\ historyIndex = lastOp.fromIndex + 1
       /\ Len(currentData) =
            Len(history[historyIndex]) - (IF lastOp.flag THEN 1 ELSE 0)
       /\ lastOp.flag =>
            \E d \in 1..Len(history[historyIndex]) :
              NamesOf(currentData) =
                NamesOf(history[historyIndex]) \ {history[historyIndex][d].originalName}

\* one of three categories has just been deleted from a sheet in which one of
\* them was spelled in two ways
C20_Witness ==
  /\ DashboardMounted
  /\ lastOp.op = "delete" /\ lastOp.flag
  /\ \E j \in 1..Len(fullDataset) :
       fullDataset[j] = [c |-> StringCell(<<" ", "A", "b", " ">>)]
  /\ \E j \in 1..Len(fullDataset) : fullDataset[j] = [c |-> StringCell(<<"a", "b">>)]
  /\ Len(history[historyIndex]) = 2
  /\ Len(currentData) = 1

\* ---- C15 as claimed: analyzeData never throws, whatever the rows are (a row
\* that is null or undefined included): no analysis, from the column selector
\* or after an update of the sheet, ends in an exception.
C15_AnalyzeNeverThrows ==
  lastOp.op \in {"analyze", "update"} => ~lastOp.flag

\* ---- C16: whenever a new analysis result reaches the Dashboard (at its
\* mount, and when the sheet is updated while it is mounted), the history is
\* set to the one snapshot results.data with the cursor at 0, whatever the
\* history was, before any other operation; and no other step changes the
\* results of a mounted Dashboard.
C16_NewResultsReinitialise ==
  [][/\ (\/ Stepped("analyze") /\ ~lastOp'.flag
         \/ Stepped("update") /\ ~lastOp'.flag /\ DashboardMounted) =>
          /\ results' # << >>
          /\ history' = <<results'[1].data>>
          /\ historyIndex' = 0
     /\ results' # results /\ results' # << >> =>
          /\ Stepped("analyze") \/ Stepped("update")
          /\ history' = <<results'[1].data>>
          /\ historyIndex' = 0]_vars

\* the sheet has just been updated while the cursor was on the second of two
\* snapshots: the history is the one snapshot of the new results
C16_Witness ==
  /\ DashboardMounted
  /\ lastOp.op = "update" /\ ~lastOp.flag
  /\ lastOp.fromLen >= 2 /\ lastOp.fromIndex >= 1
  /\ Len(results[1].data) = 2
  /\ history = <<results[1].data>>
  /\ historyIndex = 0

\* ---- C17 as claimed: whatever the history position, the filter text and the
\* table sort, the rows handed to exportToCSV are the items of the current
\* snapshot: each of them, as it is there, none missing and none added.
C17_ExportIsCurrentSnapshot ==
  DashboardMounted /\ lastOp.op = "export" =>
    /\ Len(exported[1]) = Len(currentData)
    /\ {exported[1][i] : i \in 1..Len(exported[1])} =
         {currentData[i] : i \in 1..Len(currentData)}

\* ---- C18: no item object and no array is reachable from two different
\* snapshots of the history; the values of history are those of the objects;
\* and no operation changes an object that exists: every step leaves the
\* content of every item object and of every array as it was (new objects are
\* only added).
C18_SnapshotsShareNothing ==
  [][/\ \A k1, k2 \in 1..Len(historyRef') :
          k1 # k2 =>
            /\ historyRef'[k1] # historyRef'[k2]
            /\ (LET a1 == heapArrays'[historyRef'[k1]]
                     a2 == heapArrays'[historyRef'[k2]]
                 IN  \A i \in 1..Len(a1), j \in 1..Len(a2) : a1[i] # a2[j])
     /\ history' = [k \in 1..Len(historyRef') |->
                      valuesOf(heapItems', heapArrays'[historyRef'[k]])]
     /\ \A id \in 1..Len(heapItems) : heapItems'[id] = heapItems[id]
     /\ \A id \in 1..Len(heapArrays) : heapArrays'[id] = heapArrays[id]]_vars

\* after two deletes the history has three snapshots; the two items of the
\* origin are still what they were, and the item of the second snapshot is a
\* copy with another percentage
C18_Witness ==
  /\ historyRef # << >>
  /\ lastOp.op = "delete" /\ lastOp.flag
  /\ Len(historyRef) = 3
  /\ Len(heapArrays[historyRef[1]]) = 2
  /\ Len(heapArrays[historyRef[2]]) = 1
  /\ heapItems[heapArrays[historyRef[2]][1]].originalName
       = heapItems[heapArrays[historyRef[1]][2]].originalName
  /\ heapItems[heapArrays[historyRef[2]][1]].percentage
       # heapItems[heapArrays[historyRef[1]][2]].percentage
  /\ heapArrays[historyRef[3]] = << >>

\* ---- C19 as claimed: for any sequence of delete, undo, redo and reset
\* invocations, two of them from the same render included, the history and the
\* cursor the next render starts from are those of the invocations applied one
\* at a time in the order they were made: none is lost or reordered.
C19_AppliedInOrder ==
  [][Stepped("render") => State(history, historyIndex) = sequential]_vars

\* ---- C21: undo and redo change only the cursor: the snapshot sequence after
\* the step (its length and the content of every snapshot) is the one before,
\* and the cursor moves by exactly one position or stays.
C21_UndoRedoMoveCursorOnly ==
  [][Stepped("undo") \/ Stepped("redo") =>
        /\ Len(history') = Len(history)
        /\ \A k \in 1..Len(history) : history'[k] = history[k]
        /\ historyIndex' \in {historyIndex - 1, historyIndex, historyIndex + 1}
        /\ Stepped("undo") => historyIndex' <= historyIndex
        /\ Stepped("redo") => historyIndex' >= historyIndex]_vars

\* a redo has just moved from the origin to the second of three snapshots
C21_Witness ==
  /\ DashboardMounted
  /\ lastOp.op = "redo"
  /\ lastOp.fromIndex = 0
  /\ lastOp.fromLen = 3
  /\ historyIndex = 1
  /\ Len(history) = 3

\* ---- C22 as claimed: safeEvaluate reports the outcome as a value (success
\* with the result when the code runs; failure when the data are not loaded,
\* when the code does not compile and when it throws) and no exception leaves
\* it; and a chart reply whose code failed or whose result is not an array
\* never reaches onChartGenerated.
C22_EvaluateReportsAsValue ==
  [][Stepped("chat") =>
        /\ ~lastOp'.flag
        /\ generatedChart' # generatedChart =>
             /\ reply'[1].type = "chart_generation"
             /\ reply'[1].code = Code(TRUE, "return", "array")]_vars

\* ---- C23: every snapshot of the history is sorted like an analysis result:
\* of any two of its items the earlier one has the larger count, or the same
\* count and a displayName that does not compare after the other's.
C23_SnapshotsStaySorted ==
  \A k \in 1..Len(history) :
    \A i, j \in 1..Len(history[k]) :
      i < j =>
        \/ history[k][i].count > history[k][j].count
        \/ /\ history[k][i].count = history[k][j].count
           /\ localeCompare(history[k][i].originalName, history[k][j].originalName) <= 0

\* the first of three items has just been deleted; the two that remain have
\* the same count and are in the order of their names
C23_Witness ==
  /\ DashboardMounted
  /\ lastOp.op = "delete" /\ lastOp.flag
  /\ Len(history[historyIndex]) = 3
  /\ Len(currentData) = 2
  /\ currentData[1] # history[historyIndex][1]
  /\ currentData[1].count = currentData[2].count
  /\ localeCompare(currentData[1].originalName, currentData[2].originalName) < 0

\* The items of a snapshot without their percentages.
Identities(items) ==
  [i \in 1..Len(items) |->
     [name |-> items[i].name, originalName |-> items[i].originalName,
      count |-> items[i].count]]

\* items with the d-th one left out (all of them when d = 0)
Without(items, d) ==
  [i \in 1..(Len(items) - (IF d = 0 THEN 0 ELSE 1)) |->
     IF d = 0 \/ i < d THEN items[i] ELSE items[i + 1]]

\* ---- C24: the history is a shrinking chain. Every snapshot after the origin
\* is the snapshot before it with at most one item left out, and every item of
\* every snapshot has the key, the displayName and the count of the item of
\* that name in the origin.
C24_ShrinkingChain ==
  /\ \A k \in 2..Len(history) :
       \E d \in 0..Len(history[k - 1]) :
         Identities(history[k]) = Without(Identities(history[k - 1]), d)
  /\ \A k \in 1..Len(history) :
       \A i \in 1..Len(history[k]) :
         \E j \in 1..Len(history[1]) :
           /\ history[1][j].originalName = history[k][i].originalName
           /\ SameButPercentage(history[1][j], history[k][i])

\* two deletes in a row, each of which removed an item: three snapshots of
\* three, two and one items
C24_Witness ==
  /\ DashboardMounted
  /\ lastOp.op = "delete" /\ lastOp.flag
  /\ Len(history) = 3 /\ historyIndex = 2
  /\ Len(history[1]) = 3 /\ Len(history[2]) = 2 /\ Len(history[3]) = 1
  /\ history[3][1].percentage # history[1][3].percentage

\* ---- C25: the stack-based Dashboard and the index-based Dashboard, given the
\* same results and the same deletes, undos and confirmed resets, show the
\* same current result: the same items with the same percentages, the same
\* total and the same number of categories.
C25_DashboardsAgree ==
  DashboardMounted => activeResults[1] = currentStats

\* a delete undone, then another delete: the index-based history was cut at
\* the cursor, the stack holds the origin alone
C25_Witness ==
  /\ DashboardMounted
  /\ lastOp.op = "delete" /\ lastOp.flag
  /\ lastOp.fromIndex = 0 /\ lastOp.fromLen = 2
  /\ Len(stackHistory) = 1
  /\ Len(activeResults[1].data) = 2

\* ---- C26: in every state of the App a selected column comes with results:
\* selectedColumn is non-empty only when results is not null.
C26_SelectedColumnHasResults ==
  selectedColumn # "" => results # << >>

\* a column is selected and the chat has just replaced the sheet, in a view
\* that does not analyse it again
C26_Witness ==
  /\ selectedColumn # ""
  /\ lastOp.op = "update"
  /\ viewMode = "CHARTS"
  /\ results # << >>

\* ---- C27: whenever the Dashboard is shown, results is the analysis of the
\* active sheet as it is now for the selected column.
C27_ResultsOfCurrentSheet ==
  DashboardMounted =>
    /\ results # << >>
    /\ ~analyzeDataThrows(fullDataset, selectedColumn)
    /\ results[1] = analyzeData(fullDataset, selectedColumn)

\* ---- C28: in the WORKSPACE step window.fullDataset is the sheet that
\* window.allSheets holds under the active sheet's name; after handleReset
\* both are empty and selectedColumn, results and the generated chart are
\* cleared.
C28_ActiveSheetInSync ==
  /\ step = "WORKSPACE" =>
       /\ activeSheetName \in DOMAIN allSheets
       /\ fullDataset = allSheets[activeSheetName]
  /\ lastOp.op = "close" =>
       /\ fullDataset = << >>
       /\ allSheets = << >>
       /\ selectedColumn = ""
       /\ results = << >>
       /\ generatedChart = << >>

\* the second sheet of a file is active and has just been replaced, and the
\* first sheet holds other rows
C28_Witness ==
  /\ step = "WORKSPACE"
  /\ lastOp.op = "update"
  /\ activeSheetName = "Sheet2"
  /\ DOMAIN allSheets = SheetNames
  /\ allSheets["Sheet1"] # allSheets["Sheet2"]
  /\ fullDataset # << >>

\* ---- C29: while the RawDataTable is shown its current page is an existing
\* page: 1 <= currentPage <= max(1, totalPages).
C29_PageExists ==
  RawDataTableMounted =>
    /\ 1 <= currentPage
    /\ currentPage <= (IF totalPages > 1 THEN totalPages ELSE 1)

\* ---- C30: the DistributionChart shows at most 11 sections: the list itself
\* when it has at most 11 items, otherwise its first 10 items and one 'Other
\* Categories' entry with the sum of the other counts; the counts of the
\* sections add up to the counts of the list.
C30_ChartConservesTotal ==
  /\ Len(chartSections) <= 11
  /\ Len(chartItems) <= 11 => chartSections = chartItems
  /\ Len(chartItems) > 11 =>
       /\ Len(chartSections) = 11
       /\ \A i \in 1..10 : chartSections[i] = chartItems[i]
       /\ chartSections[11].originalName = OtherCategories
       /\ chartSections[11].count = Sum(SubSeq(chartItems, 11, Len(chartItems)))
  /\ Sum(chartSections) = Sum(chartItems)

\* a list of more than 11 items whose last section stands for several of them
C30_Witness ==
  /\ Len(chartItems) > 11
  /\ Len(chartSections) = 11
  /\ chartSections[11].originalName = OtherCategories
  /\ chartSections[11].count > chartItems[11].count
  /\ chartItems[1].count > chartItems[11].count

====
